---- MODULE Spec2Model ----
(***************************************************************************)
(* A model of isov8: the Value type (src/lib.rs, src/value.rs) with its    *)
(* equality, ordering and hashing, the converter Value::new, the session   *)
(* IsoV8 (new / eval / scope) and the one-time engine initialisation.      *)
(*                                                                         *)
(* Conventions.                                                            *)
(*  - An f64 payload is an integer count of halves: Float(3) is 1.5 and    *)
(*    Float(4) is 2.0.  NaN is not in the model.                           *)
(*  - A Rust String / JavaScript string is the sequence of its bytes.      *)
(*  - A BTreeMap is the sequence of its entries in key order.              *)
(*  - The outcome of a comparison is "true", "false", "panic" (an index    *)
(*    out of bounds) or "diverge" (unbounded self-recursion: the call      *)
(*    never returns a value).                                              *)
(***************************************************************************)
EXTENDS Integers, Sequences, FiniteSets, TLC

VARIABLES
    \* ---- SpecValue: two values and the results of comparing / hashing them
    file,       \* which source file's impl PartialEq is exercised
    v1, v2,     \* the operands
    eq12, eq21, \* outcome of v1 == v2 and of v2 == v1 ("none" before the call)
    h1, h2,     \* bytes fed to the hasher by v1.hash and v2.hash (<<-1>> before)
    \* ---- SpecNew: a script value and its conversion
    js,         \* the script value handed to Value::new
    converted,  \* what Value::new returned for it ([tag |-> "none"] before)
    \* ---- Spec: sessions evaluating scripts
    INIT,       \* the std::sync::Once guarding engine initialisation
    sessions,   \* session id -> [state, context]
    contexts,   \* context id -> the `x` binding of that context's global object
    last,       \* the last eval call: session, source, inputs and what it returned
    \* ---- SpecInit: threads inside IsoV8::new
    pc,         \* thread -> position in IsoV8::new
    calls,      \* thread -> number of IsoV8::new calls it has started
    platformInits, v8Inits,   \* how often each half of the init body has run
    isolates    \* number of isolates created

vars == <<file, v1, v2, eq12, eq21, h1, h2, js, converted, INIT, sessions, contexts, last,
          pc, calls, platformInits, v8Inits, isolates>>

valueVars == <<file, v1, v2, eq12, eq21, h1, h2, js, converted>>
evalVars  == <<sessions, contexts, last>>
engineVars == <<INIT, platformInits, v8Inits, isolates>>
threadVars == <<pc, calls>>

----------------------------------------------------------------------------
(* Bounds of the model *)

MaxLen      == 2  \* longest array, longest insertion sequence, most properties
NumSessions == 2  \* sessions in Spec
NumThreads  == 3  \* threads in SpecInit
MaxNewCalls == 2  \* IsoV8::new calls per thread in SpecInit
MaxX        == 2  \* largest number a script stores in the global x

----------------------------------------------------------------------------
(* enum Value *)

NoValue            == [tag |-> "NoValue"]
Undefined          == [tag |-> "Undefined"]
Null               == [tag |-> "Null"]
Boolean(b)         == [tag |-> "Boolean", b |-> b]
Float(f)           == [tag |-> "Float", f |-> f]
Integer(i)         == [tag |-> "Integer", i |-> i]
UnsignedInteger(u) == [tag |-> "UnsignedInteger", u |-> u]
Date(d)            == [tag |-> "Date", d |-> d]
String(s)          == [tag |-> "String", s |-> s]
Array(a)           == [tag |-> "Array", a |-> a]
Function(fn)       == [tag |-> "Function", fn |-> fn]
Object(o)          == [tag |-> "Object", o |-> o]

PayloadFree == {"NoValue", "Undefined", "Null"}

(* impl Ord for Value: every comparison answers Equal *)
cmp(self, other) == "Equal"

----------------------------------------------------------------------------
(* BTreeMap<Value, Value>, driven by cmp as the standard library drives it *)

(* Linear search of a node: skip the keys the probe is Greater than; stop at
   the first key that is Equal (found) or Less (not found, insert here). *)
RECURSIVE search(_, _, _)
search(o, key, i) ==
    IF i > Len(o) THEN [found |-> FALSE, idx |-> i]
    ELSE LET c == cmp(key, o[i].k) IN
         IF c = "Greater" THEN search(o, key, i + 1)
         ELSE [found |-> (c = "Equal"), idx |-> i]

contains_key(o, key) == search(o, key, 1).found

(* BTreeMap::get(..).unwrap(), used where the key is known to be present *)
get(o, key) == o[search(o, key, 1).idx].v

(* BTreeMap::insert: an occupied entry keeps its key and takes the new value *)
insert(o, key, value) ==
    LET r == search(o, key, 1) IN
    IF r.found
    THEN [o EXCEPT ![r.idx] = [k |-> o[r.idx].k, v |-> value]]
    ELSE SubSeq(o, 1, r.idx - 1) \o <<[k |-> key, v |-> value]>>
         \o SubSeq(o, r.idx, Len(o))

keys(o) == [i \in 1..Len(o) |-> o[i].k]

(* the map left by inserting the pairs ps, in order, into an empty map *)
RECURSIVE from_inserts(_)
from_inserts(ps) ==
    IF ps = <<>> THEN <<>>
    ELSE LET p == ps[Len(ps)] IN
         insert(from_inserts(SubSeq(ps, 1, Len(ps) - 1)), p[1], p[2])

----------------------------------------------------------------------------
(* impl PartialEq for Value *)

Bool(b) == IF b THEN "true" ELSE "false"

(* the Object arm: both key loops, by contains_key; values are not looked at *)
object_eq(o, o2) ==
    IF \E i \in 1..Len(o) : ~contains_key(o2, o[i].k) THEN "false"
    ELSE IF \E i \in 1..Len(o2) : ~contains_key(o, o2[i].k) THEN "false"
    ELSE "true"

RECURSIVE eq(_, _, _)

(* the Array arm: for x in 0..a.len() { if a2[x] != a[x] { return false } } *)
RECURSIVE array_eq(_, _, _, _)
array_eq(f, a, a2, x) ==
    IF x > Len(a) THEN "true"
    ELSE IF x > Len(a2) THEN "panic"
    ELSE LET r == eq(f, a2[x], a[x]) IN
         IF r = "true" THEN array_eq(f, a, a2, x + 1) ELSE r

(* the arm for NoValue, Undefined and Null: lib.rs calls itself on the same
   operands; value.rs matches the variant of other *)
payload_free_eq(f, self, other) ==
    IF f = "lib.rs" THEN "diverge" ELSE Bool(other.tag = self.tag)

eq(f, self, other) ==
    CASE self.tag = "Boolean" ->
           IF other.tag = "Boolean" THEN Bool(self.b = other.b) ELSE "false"
      [] self.tag = "Float" ->
           IF other.tag = "Float" THEN Bool(self.f = other.f) ELSE "false"
      [] self.tag = "Integer" ->
           IF other.tag = "Integer" THEN Bool(self.i = other.i) ELSE "false"
      [] self.tag = "UnsignedInteger" ->
           IF other.tag = "UnsignedInteger" THEN Bool(self.u = other.u) ELSE "false"
      [] self.tag = "Date" ->
           IF other.tag = "Date" THEN Bool(self.d = other.d) ELSE "false"
      [] self.tag = "String" ->
           IF other.tag = "String" THEN Bool(self.s = other.s) ELSE "false"
      [] self.tag = "Function" ->
           IF other.tag = "Function" THEN Bool(self.fn = other.fn) ELSE "false"
      [] self.tag = "Object" ->
           IF other.tag = "Object" THEN object_eq(self.o, other.o) ELSE "false"
      [] self.tag = "Array" ->
           IF other.tag = "Array" THEN array_eq(f, self.a, other.a, 1) ELSE "false"
      [] OTHER -> payload_free_eq(f, self, other)

----------------------------------------------------------------------------
(* impl Hash for Value: the bytes written to the hasher *)

(* the n low bytes of x, least significant first; % and \div round towards
   minus infinity, so a negative x yields its two's-complement bytes *)
RECURSIVE bytes(_, _)
bytes(x, n) == IF n = 0 THEN <<>> ELSE <<x % 256>> \o bytes(x \div 256, n - 1)

(* `f as u64`: the integer part, saturating at 0 for negative payloads *)
as_u64(f) == IF f < 0 THEN 0 ELSE f \div 2

write_u8(x)  == <<x>>
write_u32(x) == bytes(x, 4)
write_i32(x) == bytes(x, 4)
write_u64(x) == bytes(x, 8)

RECURSIVE hash(_)

RECURSIVE hash_array(_, _)
hash_array(a, x) ==
    IF x > Len(a) THEN <<>> ELSE hash(a[x]) \o hash_array(a, x + 1)

RECURSIVE hash_object(_, _)
hash_object(o, x) ==
    IF x > Len(o) THEN <<>>
    ELSE hash(o[x].k) \o hash(get(o, o[x].k)) \o hash_object(o, x + 1)

hash(self) ==
    CASE self.tag = "NoValue"   -> write_u8(0)
      [] self.tag = "Undefined" -> write_u8(1)
      [] self.tag = "Null"      -> write_u8(3)
      [] self.tag = "Boolean"   -> write_u8(IF self.b THEN 4 ELSE 5)
      [] self.tag = "Float"     -> write_u8(6) \o write_u64(as_u64(self.f))
      [] self.tag = "Integer"   -> write_u8(7) \o write_i32(self.i)
      [] self.tag = "UnsignedInteger" -> write_u8(8) \o write_u32(self.u)
      [] self.tag = "Date"      -> write_u8(9) \o write_u64(as_u64(self.d))
      [] self.tag = "String"    -> write_u8(10) \o self.s
      [] self.tag = "Array"     -> write_u8(11) \o hash_array(self.a, 1)
      [] self.tag = "Function"  -> write_u8(12)
      [] self.tag = "Object"    -> write_u8(13) \o hash_object(self.o, 1)

----------------------------------------------------------------------------
(* The values SpecValue compares *)

StrA == <<97>>
StrB == <<98>>

Leaves ==
    {NoValue, Undefined, Null, Boolean(TRUE), Boolean(FALSE),
     Float(2), Float(3), Float(4), Float(-3), Integer(-1), Integer(1),
     UnsignedInteger(1), Date(2), Date(3), String(StrA), String(StrB),
     Function(1), Function(2)}

Elems == {Null, Float(2), Float(4), String(StrA)}

SeqsUpTo(S, n) == UNION {[1..k -> S] : k \in 0..n}

Arrays == {Array(a) : a \in SeqsUpTo(Elems, MaxLen)}

(* objects as the program builds them: by insert, from the empty map *)
Pairs == {String(StrA), String(StrB)} \X {Float(2), Float(4), Null}
Objects == {Object(from_inserts(ps)) : ps \in SeqsUpTo(Pairs, MaxLen)}

Nested ==
    {Array(<<x>>) : x \in {Array(<<>>), Array(<<Float(2)>>),
                           Object(<<>>), Object(from_inserts(<<<<String(StrA), Float(2)>>>>))}}

Values == Leaves \cup Arrays \cup Objects \cup Nested

----------------------------------------------------------------------------
(* Script values, as the engine hands them to Value::new *)

JsNull          == [kind |-> "null"]
JsUndefined     == [kind |-> "undefined"]
JsNumber(n)     == [kind |-> "number", n |-> n]
JsString(s)     == [kind |-> "string", s |-> s]
JsDate(ms)      == [kind |-> "date", ms |-> ms]
JsBoolean(b)    == [kind |-> "boolean", b |-> b]
JsArray(elems)  == [kind |-> "array", elems |-> elems]
JsFunction      == [kind |-> "function"]
JsSymbol        == [kind |-> "symbol"]
(* props: the enumerable properties in the engine's enumeration order, each
   [name, value]; the names of one object are pairwise distinct *)
JsObject(props) == [kind |-> "object", props |-> props]

is_null(value)      == value.kind = "null"
is_undefined(value) == value.kind = "undefined"
is_number(value)    == value.kind = "number"
(* integral and non-negative / integral; the 32-bit limits lie beyond the
   numbers of this model *)
is_uint32(value)    == value.kind = "number" /\ value.n % 2 = 0 /\ value.n >= 0
is_int32(value)     == value.kind = "number" /\ value.n % 2 = 0
is_string(value)    == value.kind = "string"
is_date(value)      == value.kind = "date"
is_boolean(value)   == value.kind = "boolean"
is_object(value)    == value.kind \in {"array", "object", "function", "date"}
is_array(value)     == value.kind = "array"

(* Object::get_property_names with the default arguments *)
get_property_names(o) == IF o.kind = "object" THEN o.props ELSE <<>>

----------------------------------------------------------------------------
(* Value::new *)

(* a variant of classify that tries the 32-bit tests before is_number *)
classify_narrow_first(value) ==
    IF is_null(value) THEN "null"
    ELSE IF is_undefined(value) THEN "undefined"
    ELSE IF is_uint32(value) THEN "uint32"
    ELSE IF is_int32(value) THEN "int32"
    ELSE IF is_number(value) THEN "number"
    ELSE IF is_string(value) THEN "string"
    ELSE IF is_date(value) THEN "date"
    ELSE IF is_boolean(value) THEN "boolean"
    ELSE IF is_object(value) THEN "object"
    ELSE "none"

(* the predicate chain of Value::new: the first test that matches *)
classify(value) ==
    IF is_null(value) THEN "null"
    ELSE IF is_undefined(value) THEN "undefined"
    ELSE IF is_number(value) THEN "number"
    ELSE IF is_uint32(value) THEN "uint32"
    ELSE IF is_int32(value) THEN "int32"
    ELSE IF is_string(value) THEN "string"
    ELSE IF is_date(value) THEN "date"
    ELSE IF is_boolean(value) THEN "boolean"
    ELSE IF is_object(value) THEN "object"
    ELSE "none"

RECURSIVE new(_)

(* for x in 0..ary.length() { new.push(Self::new(scope, v)) } *)
RECURSIVE new_array(_, _)
new_array(elems, x) ==
    IF x > Len(elems) THEN <<>>
    ELSE <<new(elems[x])>> \o new_array(elems, x + 1)

(* for x in 0..ary.length() { new.insert(Self::new(k), Self::new(v)) } *)
RECURSIVE new_object(_, _)
new_object(props, n) ==
    IF n = 0 THEN <<>>
    ELSE insert(new_object(props, n - 1), new(props[n].name), new(props[n].value))

new(value) ==
    LET c == classify(value) IN
    CASE c = "null"      -> Null
      [] c = "undefined" -> Undefined
      [] c = "number"    -> Float(value.n)
      [] c = "uint32"    -> UnsignedInteger(value.n \div 2)
      [] c = "int32"     -> Integer(value.n \div 2)
      [] c = "string"    -> String(value.s)
      [] c = "date"      -> Date(value.ms)
      [] c = "boolean"   -> Boolean(value.b)
      [] c = "object"    ->
           IF is_array(value) /\ Len(value.elems) > 0
           THEN Array(new_array(value.elems, 1))
           ELSE LET ary == get_property_names(value) IN
                Object(new_object(ary, Len(ary)))
      [] OTHER -> NoValue

----------------------------------------------------------------------------
(* The scripts of the model, and what the engine does with them *)

StrTest == <<116, 101, 115, 116>>

JsLeaves == {JsNull, JsUndefined, JsNumber(2), JsNumber(3), JsNumber(4),
             JsNumber(-2), JsString(StrA), JsDate(2), JsBoolean(TRUE),
             JsFunction, JsSymbol}
JsElems  == {JsNumber(2), JsNumber(4), JsNull}
(* an index-like name, as in ({1: ..}), is enumerated as a number *)
JsNames  == {JsString(StrA), JsString(StrB), JsString(StrTest), JsNumber(2)}

JsArrays == {JsArray(e) : e \in SeqsUpTo(JsElems, MaxLen)}
JsObjects ==
    {JsObject([i \in 1..Len(ns) |-> [name |-> ns[i], value |-> vs[i]]]) :
        <<ns, vs>> \in UNION {
            {ns \in [1..k -> JsNames] : \A i, j \in 1..k : ns[i] = ns[j] => i = j}
                \X [1..k -> JsElems]
            : k \in 0..MaxLen}}
JsNested ==
    {JsArray(<<JsArray(<<JsNumber(2)>>), JsArray(<<>>)>>),
     JsObject(<<[name |-> JsString(StrA), value |-> JsArray(<<JsNumber(2), JsNumber(4)>>)]>>)}

JsValues == JsLeaves \cup JsArrays \cup JsObjects \cup JsNested

(* A source text, by what it says:
     literal v      an expression without effects whose value is v
                    ("1 + 1", "[1, 2]", "({ \"test\": 1 })", "null", ...)
     var x = n      declares / assigns the global x
     x + 1          reads the global x
     x = x + 1      reads and assigns the global x
     throw          "throw new Error('boom')"
     syntax error   a text the engine does not compile, such as "var = 1"
     loop           "while (true) {}", which runs until it is terminated *)
Literal(v) == [op |-> "literal", value |-> v, n |-> 0]
VarX(n)    == [op |-> "var x = n", value |-> JsUndefined, n |-> n]
Stmt(op)   == [op |-> op, value |-> JsUndefined, n |-> 0]

(* "1 + 1", "[1, 2]", "({ \"test\": 1 })" *)
Literals ==
    {JsNumber(4), JsArray(<<JsNumber(2), JsNumber(4)>>),
     JsObject(<<[name |-> JsString(StrTest), value |-> JsNumber(2)]>>)}

Sources ==
    {Literal(v) : v \in Literals} \cup {VarX(n) : n \in 1..MaxX}
    \cup {Stmt(op) : op \in {"x + 1", "x = x + 1", "throw", "syntax error", "loop"}}

NoException == [name |-> "", message |-> ""]
Unbound     == [bound |-> FALSE, n |-> 0]
Bound(n)    == [bound |-> TRUE, n |-> n]

(* v8::Script::compile under a TryCatch: the script, or None and the pending
   exception *)
compile(source) ==
    IF source.op = "syntax error"
    THEN [some |-> FALSE, exception |-> [name |-> "SyntaxError", message |-> "Unexpected token '='"],
          terminated |-> FALSE]
    ELSE [some |-> TRUE, exception |-> NoException, terminated |-> FALSE]

(* v8::Script::run under a TryCatch, in a context whose global x is `x`: the
   completion value, or None with the pending exception or the termination
   mark; and the global x it leaves.  `terminate`: the host terminates the
   execution while the script runs. *)
run(source, x, terminate) ==
    IF terminate
    THEN [some |-> FALSE, value |-> JsUndefined, exception |-> NoException,
          terminated |-> TRUE, x |-> x]
    ELSE IF source.op = "throw"
    THEN [some |-> FALSE, value |-> JsUndefined,
          exception |-> [name |-> "Error", message |-> "boom"],
          terminated |-> FALSE, x |-> x]
    ELSE IF source.op \in {"x + 1", "x = x + 1"} /\ ~x.bound
    THEN [some |-> FALSE, value |-> JsUndefined,
          exception |-> [name |-> "ReferenceError", message |-> "x is not defined"],
          terminated |-> FALSE, x |-> x]
    ELSE [some |-> TRUE, exception |-> NoException, terminated |-> FALSE,
          value |-> CASE source.op = "literal"   -> source.value
                      [] source.op = "x + 1"     -> JsNumber(2 * (x.n + 1))
                      [] source.op = "x = x + 1" -> JsNumber(2 * (x.n + 1))
                      [] OTHER                   -> JsUndefined,
          x |-> CASE source.op = "var x = n" -> Bound(source.n)
                  [] source.op = "x = x + 1" -> Bound(x.n + 1)
                  [] OTHER                   -> x]

(* Value::to_rust_string_lossy of an exception object: "<name>: <message>" *)
to_rust_string_lossy(exc) == <<exc.name, ": ", exc.message>>

Ok(value)  == [kind |-> "Ok", value |-> value]
Timeout    == [kind |-> "Err", error |-> "Timeout"]
ErrValue(description) == [kind |-> "Err", error |-> "Value", description |-> description]
Panic      == [kind |-> "panic"]

(* pub fn exception(scope) *)
exception(tc) ==
    IF tc.terminated THEN Timeout
    ELSE IF tc.exception # NoException THEN ErrValue(to_rust_string_lossy(tc.exception))
    ELSE Ok(NoValue)

(* the closure of IsoV8::eval: what the call yields, and the global x it leaves *)
eval(source, x, terminate) ==
    LET script == compile(source) IN
    IF exception(script).kind = "Err" THEN [result |-> exception(script), x |-> x]
    ELSE IF ~script.some THEN [result |-> Panic, x |-> x]
    ELSE LET result == run(source, x, terminate) IN
         IF ~result.some THEN [result |-> Panic, x |-> result.x]
         ELSE IF exception(result).kind = "Err"
         THEN [result |-> exception(result), x |-> result.x]
         ELSE [result |-> Ok(new(result.value)), x |-> result.x]

(* a variant of scope that enters the first context of the process instead
   of the session's own *)
scope_first_context(session) == 1

(* IsoV8::scope: the context the closure runs in, self.context *)
scope(session) == session.context

----------------------------------------------------------------------------
(* a variant of call_once that tests a plain completion flag: a caller that
   arrives while the body runs runs it too *)
call_once_unguarded(state) == IF state = "COMPLETE" THEN "skip" ELSE "run"

(* std::sync::Once, as init_v8 uses it: what a caller of call_once does *)
call_once(state) ==
    IF state = "INCOMPLETE" THEN "run"
    ELSE IF state = "RUNNING" THEN "wait"
    ELSE "skip"

----------------------------------------------------------------------------
(* SpecValue: draw two values, compare them both ways, hash both *)

NotHashed == <<-1>>
NotConverted == [tag |-> "none"]

NoSessions == <<>>
NoThreads  == <<>>
EvalIdle   == [session |-> 0, source |-> Stmt("none"), terminate |-> FALSE,
               entered |-> 0, ran |-> FALSE, raised |-> NoException,
               result |-> [kind |-> "none"]]

ValueIdle ==
    /\ file = "lib.rs"
    /\ v1 = NoValue /\ v2 = NoValue
    /\ eq12 = "none" /\ eq21 = "none"
    /\ h1 = NotHashed /\ h2 = NotHashed
    /\ js = JsUndefined /\ converted = NotConverted

EngineFresh ==
    /\ INIT = "INCOMPLETE"
    /\ platformInits = 0 /\ v8Inits = 0 /\ isolates = 0
    /\ contexts = <<>>

InitValue ==
    /\ file \in {"lib.rs", "value.rs"}
    /\ v1 \in Values
    /\ v2 \in Values
    /\ eq12 = "none" /\ eq21 = "none"
    /\ h1 = NotHashed /\ h2 = NotHashed
    /\ js = JsUndefined /\ converted = NotConverted
    /\ EngineFresh
    /\ sessions = NoSessions /\ last = EvalIdle
    /\ pc = NoThreads /\ calls = NoThreads

(* v1 == v2 and v2 == v1 *)
Compare ==
    /\ eq12 = "none"
    /\ eq12' = eq(file, v1, v2)
    /\ eq21' = eq(file, v2, v1)
    /\ UNCHANGED <<file, v1, v2, h1, h2, js, converted, engineVars, evalVars, threadVars>>

(* v1.hash(state) and v2.hash(state), each into a fresh hasher *)
HashBoth ==
    /\ h1 = NotHashed
    /\ h1' = hash(v1)
    /\ h2' = hash(v2)
    /\ UNCHANGED <<file, v1, v2, eq12, eq21, js, converted, engineVars, evalVars, threadVars>>

NextValue == Compare \/ HashBoth

SpecValue == InitValue /\ [][NextValue]_vars

----------------------------------------------------------------------------
(* SpecNew: draw a script value and convert it *)

InitNew ==
    /\ file = "lib.rs"
    /\ v1 = NoValue /\ v2 = NoValue
    /\ eq12 = "none" /\ eq21 = "none"
    /\ h1 = NotHashed /\ h2 = NotHashed
    /\ js \in JsValues
    /\ converted = NotConverted
    /\ EngineFresh
    /\ sessions = NoSessions /\ last = EvalIdle
    /\ pc = NoThreads /\ calls = NoThreads

(* Value::new(scope, js) *)
Value_new ==
    /\ converted = NotConverted
    /\ converted' = new(js)
    /\ UNCHANGED <<file, v1, v2, eq12, eq21, h1, h2, js, engineVars, evalVars, threadVars>>

NextNew == Value_new

SpecNew == InitNew /\ [][NextNew]_vars

----------------------------------------------------------------------------
(* Spec: sessions created and used from one thread *)

Session == 1..NumSessions

Init ==
    /\ ValueIdle
    /\ EngineFresh
    /\ sessions = [s \in Session |-> [state |-> "none", context |-> 0, latest |-> Unbound]]
    /\ last = EvalIdle
    /\ pc = NoThreads /\ calls = NoThreads

(* IsoV8::new: init_v8, Isolate::new, initialize_slots *)
IsoV8_new(s) ==
    /\ sessions[s].state = "none"
    /\ IF call_once(INIT) = "run"
       THEN /\ platformInits' = platformInits + 1
            /\ v8Inits' = v8Inits + 1
            /\ INIT' = "COMPLETE"
       ELSE UNCHANGED <<platformInits, v8Inits, INIT>>
    /\ isolates' = isolates + 1
    /\ contexts' = Append(contexts, Unbound)
    /\ sessions' = [sessions EXCEPT ![s].state = "ready", ![s].context = Len(contexts) + 1]
    /\ UNCHANGED <<valueVars, last, threadVars>>

(* the global x after a successful eval of source, given the x before: the
   history of the session's own writes *)
Written(source, x) ==
    CASE source.op = "var x = n" -> Bound(source.n)
      [] source.op = "x = x + 1" -> IF x.bound THEN Bound(x.n + 1) ELSE x
      [] OTHER -> x

(* IsoV8::eval(source).  A panic unwinds the caller, which ends the session;
   "while (true) {}" returns only when it is terminated. *)
IsoV8_eval(s, source, terminate) ==
    LET context == scope(sessions[s]) IN
    /\ sessions[s].state = "ready"
    /\ source.op = "loop" => terminate
    /\ source.op = "x = x + 1" => contexts[context].n < MaxX
    /\ LET r == eval(source, contexts[context], terminate) IN
       /\ contexts' = [contexts EXCEPT ![context] = r.x]
       /\ sessions' = [sessions EXCEPT
             ![s].state  = IF r.result = Panic THEN "unwound" ELSE "ready",
             ![s].latest = IF r.result.kind = "Ok" THEN Written(source, @) ELSE @]
       /\ last' = [session |-> s, source |-> source, terminate |-> terminate,
                   entered |-> context,
                   ran |-> compile(source).some,
                   raised |-> IF ~compile(source).some THEN compile(source).exception
                              ELSE run(source, contexts[context], terminate).exception,
                   result |-> r.result]
    /\ UNCHANGED <<valueVars, engineVars, threadVars>>

Next ==
    \/ \E s \in Session : IsoV8_new(s)
    \/ \E s \in Session, source \in Sources, terminate \in BOOLEAN :
          IsoV8_eval(s, source, terminate)

Spec == Init /\ [][Next]_vars

----------------------------------------------------------------------------
(* SpecInit: threads calling IsoV8::new concurrently, one step per call made
   inside it *)

Thread == 1..NumThreads

InitInit ==
    /\ ValueIdle
    /\ EngineFresh
    /\ sessions = NoSessions /\ last = EvalIdle
    /\ pc = [t \in Thread |-> "idle"]
    /\ calls = [t \in Thread |-> 0]

(* a thread calls IsoV8::new (again, after its previous call returned) *)
CallNew(t) ==
    /\ pc[t] \in {"idle", "returned"}
    /\ calls[t] < MaxNewCalls
    /\ pc' = [pc EXCEPT ![t] = "init_v8"]
    /\ calls' = [calls EXCEPT ![t] = @ + 1]
    /\ UNCHANGED <<valueVars, engineVars, evalVars>>

(* INIT.call_once(..): run the closure, return at once, or block while
   another thread runs it *)
init_v8(t) ==
    /\ pc[t] = "init_v8"
    /\ \/ /\ call_once(INIT) = "run"
          /\ INIT' = "RUNNING"
          /\ pc' = [pc EXCEPT ![t] = "initialize_platform"]
       \/ /\ call_once(INIT) = "skip"
          /\ INIT' = INIT
          /\ pc' = [pc EXCEPT ![t] = "Isolate::new"]
       \/ /\ call_once(INIT) = "wait"
          /\ INIT' = INIT
          /\ pc' = [pc EXCEPT ![t] = "parked"]
    /\ UNCHANGED <<valueVars, platformInits, v8Inits, isolates, evalVars, calls>>

(* a caller parked inside call_once resumes once the Once is complete *)
unpark(t) ==
    /\ pc[t] = "parked"
    /\ INIT = "COMPLETE"
    /\ pc' = [pc EXCEPT ![t] = "Isolate::new"]
    /\ UNCHANGED <<valueVars, engineVars, evalVars, calls>>

(* v8::V8::initialize_platform(platform) *)
initialize_platform(t) ==
    /\ pc[t] = "initialize_platform"
    /\ platformInits' = platformInits + 1
    /\ pc' = [pc EXCEPT ![t] = "initialize"]
    /\ UNCHANGED <<valueVars, INIT, v8Inits, isolates, evalVars, calls>>

(* v8::V8::initialize() *)
initialize(t) ==
    /\ pc[t] = "initialize"
    /\ v8Inits' = v8Inits + 1
    /\ pc' = [pc EXCEPT ![t] = "call_once returns"]
    /\ UNCHANGED <<valueVars, INIT, platformInits, isolates, evalVars, calls>>

(* the closure has returned: the Once completes and releases the waiters *)
call_once_returns(t) ==
    /\ pc[t] = "call_once returns"
    /\ INIT' = "COMPLETE"
    /\ pc' = [pc EXCEPT ![t] = "Isolate::new"]
    /\ UNCHANGED <<valueVars, platformInits, v8Inits, isolates, evalVars, calls>>

(* v8::Isolate::new(Default::default()) *)
Isolate_new(t) ==
    /\ pc[t] = "Isolate::new"
    /\ isolates' = isolates + 1
    /\ pc' = [pc EXCEPT ![t] = "initialize_slots"]
    /\ UNCHANGED <<valueVars, INIT, platformInits, v8Inits, evalVars, calls>>

(* initialize_slots(&mut isolate), and IsoV8::new returns *)
initialize_slots(t) ==
    /\ pc[t] = "initialize_slots"
    /\ contexts' = Append(contexts, Unbound)
    /\ pc' = [pc EXCEPT ![t] = "returned"]
    /\ UNCHANGED <<valueVars, engineVars, sessions, last, calls>>

NextInit ==
    \E t \in Thread :
        \/ CallNew(t)
        \/ init_v8(t)
        \/ unpark(t)
        \/ initialize_platform(t)
        \/ initialize(t)
        \/ call_once_returns(t)
        \/ Isolate_new(t)
        \/ initialize_slots(t)

SpecInit == InitInit /\ [][NextInit]_vars

----------------------------------------------------------------------------
(* Claims about equality and hashing, checked under SpecValue *)

KeySet(o) == {o[i].k : i \in 1..Len(o)}
ValueAt(o, key) == o[CHOOSE i \in 1..Len(o) : o[i].k = key].v
Compared == eq12 # "none"
Hashed   == h1 # NotHashed

(* C2: two Object values are equal exactly when their key sets are identical
   and every key maps to the same value in both. *)
C2_ObjectEqIffSameKeysAndValues ==
    (Compared /\ v1.tag = "Object" /\ v2.tag = "Object") =>
        (eq12 = "true" <=>
            /\ KeySet(v1.o) = KeySet(v2.o)
            /\ \A key \in KeySet(v1.o) \cap KeySet(v2.o) :
                   ValueAt(v1.o, key) = ValueAt(v2.o, key))

(* C5: Array and Object values that compare equal feed the same bytes to the
   hasher. *)
C5_EqualContainersHashEqual ==
    (Compared /\ Hashed /\ v1.tag \in {"Array", "Object"} /\ v2.tag = v1.tag
        /\ eq12 = "true") => h1 = h2

(* C6: every comparison returns a boolean; it is false for values of
   different variants; for NoValue, Undefined and Null it is true exactly when
   both are the same variant. *)
C6_EqIsTotalAndVariantAware ==
    Compared =>
        /\ eq12 \in {"true", "false"}
        /\ v1.tag # v2.tag => eq12 = "false"
        /\ (v1.tag \in PayloadFree /\ v2.tag \in PayloadFree) =>
               (eq12 = "true" <=> v1.tag = v2.tag)

(* C7: two Array values are equal exactly when they have the same length and
   equal elements at every index; the comparison returns a boolean whatever
   the lengths, and the same one in both directions. *)
C7_ArrayEqIsElementwise ==
    (Compared /\ v1.tag = "Array" /\ v2.tag = "Array") =>
        /\ eq12 \in {"true", "false"}
        /\ eq12 = "true" <=>
               /\ Len(v1.a) = Len(v2.a)
               /\ \A i \in 1..Len(v1.a) : v1.a[i] = v2.a[i]
        /\ eq12 = eq21

----------------------------------------------------------------------------
(* Claims about the converter, checked under SpecNew *)

Converted == converted # NotConverted

RECURSIVE HasInteger(_)
HasInteger(v) ==
    CASE v.tag \in {"Integer", "UnsignedInteger"} -> TRUE
      [] v.tag = "Array"  -> \E i \in 1..Len(v.a) : HasInteger(v.a[i])
      [] v.tag = "Object" ->
           \E i \in 1..Len(v.o) : HasInteger(v.o[i].k) \/ HasInteger(v.o[i].v)
      [] OTHER -> FALSE

AllNumbers(elems) == \A i \in 1..Len(elems) : elems[i].kind = "number"

(* C3: a script object with n distinct property names converts to an Object
   with exactly n entries, each converted name mapped to the conversion of its
   own value. *)
C3_ObjectKeepsEveryProperty ==
    (Converted /\ js.kind = "object") =>
        /\ converted.tag = "Object"
        /\ Len(converted.o) = Len(js.props)
        /\ \A i \in 1..Len(js.props) :
               \E j \in 1..Len(converted.o) :
                   /\ converted.o[j].k = new(js.props[i].name)
                   /\ converted.o[j].v = new(js.props[i].value)

(* C8: every script number converts to Float with the same double, also when
   it is integral; arrays of numbers convert to arrays of Float in order; no
   conversion contains an Integer or an UnsignedInteger. *)
C8_NumbersConvertToFloat ==
    Converted =>
        /\ ~HasInteger(converted)
        /\ js.kind = "number" => converted = Float(js.n)
        /\ (js.kind = "array" /\ js.elems # <<>> /\ AllNumbers(js.elems)) =>
               converted = Array([i \in 1..Len(js.elems) |-> Float(js.elems[i].n)])

C8_Witness ==
    /\ js = JsArray(<<JsNumber(2), JsNumber(4)>>)
    /\ converted = Array(<<Float(2), Float(4)>>)

----------------------------------------------------------------------------
(* Claims about eval and the session, checked under Spec *)

Evaluated == last.session # 0

(* C1: when compiling or running the source raises a script exception, eval
   returns Err(Error::Value(d)), d the display string of the exception. *)
C1_ScriptExceptionYieldsErrorValue ==
    (Evaluated /\ last.raised # NoException) =>
        last.result = ErrValue(<<last.raised.name, ": ", last.raised.message>>)

(* C9: when the execution is terminated while eval runs the script, eval
   returns Err(Error::Timeout). *)
C9_TerminationYieldsTimeout ==
    (Evaluated /\ last.ran /\ last.terminate) => last.result = Timeout

Created == {s \in Session : sessions[s].state # "none"}

(* C4: every eval of a session runs in the context made when the session was
   constructed, no eval makes a context, sessions do not share one, and an
   eval that reads the global x sees the value the latest successful eval of
   that session left in it. *)
C4_PersistentContext ==
    /\ Len(contexts) = Cardinality(Created)
    /\ \A s, t \in Created : sessions[s].context = sessions[t].context => s = t
    /\ \A s \in Created : contexts[sessions[s].context] = sessions[s].latest
    /\ Evaluated =>
         LET s == last.session IN
         /\ last.entered = sessions[s].context
         /\ (last.source.op = "x + 1" /\ ~last.terminate /\ sessions[s].latest.bound) =>
                last.result = Ok(Float(2 * (sessions[s].latest.n + 1)))
         /\ (last.source.op = "x = x + 1" /\ ~last.terminate /\ sessions[s].latest.bound) =>
                last.result = Ok(Float(2 * sessions[s].latest.n))

C4_Witness ==
    /\ Evaluated
    /\ last.source.op = "x + 1"
    /\ last.result = Ok(Float(6))
    /\ sessions[last.session].latest = Bound(2)
    /\ \E s \in Created : s # last.session /\ sessions[s].latest = Bound(1)

----------------------------------------------------------------------------
(* Claims about engine initialisation, checked under SpecInit *)

PastInit == {"Isolate::new", "initialize_slots", "returned"}

(* C10: however many threads call IsoV8::new, and however often, the
   initialisation body runs once, and no call creates its isolate before the
   body has completed. *)
C10_InitRunsOnce ==
    /\ platformInits <= 1
    /\ v8Inits <= 1
    /\ (isolates > 0 \/ \E t \in Thread : pc[t] \in PastInit) =>
           /\ INIT = "COMPLETE"
           /\ platformInits = 1
           /\ v8Inits = 1

C10_Witness ==
    \E t, u \in Thread :
        /\ pc[t] = "parked"
        /\ pc[u] = "Isolate::new"
        /\ INIT = "COMPLETE"
        /\ platformInits = 1 /\ v8Inits = 1
        /\ isolates = 0

====
